---------------------------- MODULE Spec2Model ----------------------------
(***************************************************************************)
(* followers-scraper.py (Playwright) and the cookie injection of           *)
(* bio-scraper.py (Selenium), as one state machine.  A behaviour of Spec   *)
(* is one of                                                               *)
(*   - one call of scrape_followers_for, from the cookie conversion to     *)
(*     its return (InitRun),                                               *)
(*   - one run of followers-scraper.py's main, which makes that call once  *)
(*     (InitMain),                                                         *)
(*   - one call of inject_cookies_into_driver (InitInject),                *)
(*   - one run of bio-scraper.py's main (InitBioMain).                     *)
(*                                                                         *)
(* Time is counted in ticks of 0.2 s (the greatest common unit of the      *)
(* 0.6 s settle delay and the 20 s / 10 s scroll budgets).                 *)
(***************************************************************************)
EXTENDS Integers, Sequences, FiniteSets, TLC

VARIABLES
    pc,                 \* position in scrape_followers_for
    cookie_list,        \* the cookie_list argument
    playwright_cookies, \* cookies_to_playwright(cookie_list)
    injected,           \* number of cookies the browser context holds
    max_followers,      \* the max_followers argument
    sessionOpen,        \* browser/context launched and not closed
    navigated,          \* page.goto(profile_url) was performed
    pagePrompt,         \* what the inspected page really shows: a login prompt
    locate,             \* outcome of the followers-link search (lines 268-331)
    dialogPresent,      \* div[role="dialog"] ul exists in the page
    total,              \* entries the remote list can yield in all
    loaded,             \* entries currently rendered in the dialog
    maxSeconds,         \* max_seconds of the running scroll_followers_modal
    elapsed,            \* time.time() - start of the running scroll call
    attempts,           \* iterations of the running scroll loop
    stall,              \* consecutive iterations that revealed no new entry
    scrollCalls,        \* calls of scroll_followers_modal so far
    scrollErrors,       \* scroll calls that ended in the except branch
    passes,             \* calls of extract_usernames_from_dialog so far
    seen,               \* per pass: rendered count, item that raised, outer error
    hashSeed,           \* the interpreter's string hash seed (0: not yet used)
    followers,          \* the followers list
    csv,                \* usernames written to {target}_followers.csv
    result,             \* how the call returned
    debug,              \* the debug files written: HTML snapshot, PNG screenshot
    targets,            \* the names of TARGET_USERNAMES, in the order supplied
    target,             \* the target of scrape_followers_for (0: none chosen)
    drv                 \* bio-scraper.py: the Selenium side (DriverIdle: none)

runVars == <<pc, cookie_list, playwright_cookies, injected, max_followers,
             sessionOpen, navigated, pagePrompt, locate, dialogPresent, total,
             loaded, maxSeconds, elapsed, attempts, stall, scrollCalls,
             scrollErrors, passes, seen, hashSeed, followers, csv, result,
             debug, targets, target>>

vars == <<runVars, drv>>

(***************************************************************************)
(* Bounds of the model.                                                    *)
(***************************************************************************)
MaxCookies == 2
MaxInject == 3
MaxAnchors == 2
MaxHeader == 1
MaxEntries == 14
NumIds == 13
GrowStep == 7
EvalSlow == 40
MaxRaiseAt == 2
CapSmall == 3
NumSeeds == 2
StallThreshold == 3
MaxTargets == 2

(***************************************************************************)
(* Program constants.                                                      *)
(***************************************************************************)
SettleDelay == 3
MaxSecondsFirst == 100
MaxSecondsSecond == 50
SecondPassMin == 10
MaxFollowersDefault == 500

Min(a, b) == IF a < b THEN a ELSE b

CeilDiv(a, b) == (a + b - 1) \div b

Range(s) == {s[i] : i \in DOMAIN s}

SeqsUpTo(S, n) == UNION {[1..k -> S] : k \in 0..n}

(***************************************************************************)
(* Cookie inputs: a well-formed cookie, one without a name, one whose      *)
(* value is None (written "None"), one whose value is the empty string,    *)
(* one whose expiry instant has passed.  expires is "absent" (no expires   *)
(* or expiry key), "past" or "future" (an instant before or after now).    *)
(***************************************************************************)
CookieSamples ==
    { [name |-> "sessionid",  value |-> "abc",  expires |-> "future"],
      [name |-> "",           value |-> "abc",  expires |-> "absent"],
      [name |-> "csrftoken",  value |-> "None", expires |-> "absent"],
      [name |-> "ds_user_id", value |-> "",     expires |-> "absent"],
      [name |-> "mid",        value |-> "abc",  expires |-> "past"] }

(* a conversion that checks the name only *)
CookieKeptNameOnly(c) == c.name # ""

(* line 74: `if not c.get("name") or c.get("value") is None: continue` *)
CookieKept(c) == ~(c.name = "" \/ c.value = "None")

(***************************************************************************)
(* cookies_to_playwright: the cookies that pass line 74, in input order.   *)
(* Lines 76-120 copy the name, str(value) and the expiry instant as an     *)
(* int; nothing compares the instant with the clock.                       *)
(***************************************************************************)
RECURSIVE cookies_to_playwright(_)
cookies_to_playwright(cookies) ==
    IF cookies = <<>> THEN <<>>
    ELSE LET rest == cookies_to_playwright(Tail(cookies))
         IN  IF CookieKept(Head(cookies)) THEN <<Head(cookies)>> \o rest
             ELSE rest

(***************************************************************************)
(* Text is a sequence of one-character strings, so that lower() and the    *)
(* `in` substring test are computed, not assumed.                          *)
(***************************************************************************)
LowerChar(c) ==
    CASE c = "L" -> "l" [] c = "O" -> "o" [] c = "G" -> "g" [] c = "I" -> "i"
      [] c = "N" -> "n" [] c = "S" -> "s" [] c = "U" -> "u" [] c = "P" -> "p"
      [] c = "A" -> "a" [] c = "W" -> "w" [] c = "R" -> "r" [] c = "D" -> "d"
      [] OTHER -> c

(* a comparison that forgets lower() *)
LowerNone(s) == s

Lower(s) == [i \in DOMAIN s |-> LowerChar(s[i])]

Contains(s, needle) ==
    \E i \in 1..(Len(s) - Len(needle) + 1) :
        SubSeq(s, i, i + Len(needle) - 1) = needle

NeedleLogIn == <<"l", "o", "g", " ", "i", "n">>
NeedleLogin == <<"l", "o", "g", "i", "n">>
NeedleSignUp == <<"s", "i", "g", "n", " ", "u", "p">>
NeedlePassword == <<"p", "a", "s", "s", "w", "o", "r", "d">>

(***************************************************************************)
(* Pages the remote service can answer with.  prompt says whether the text *)
(* carries a login-prompt signature in some letter case.                   *)
(***************************************************************************)
TitleSamples ==
    { [text |-> <<"L", "o", "g", " ", "i", "n">>,      prompt |-> TRUE],
      [text |-> <<"L", "O", "G", "I", "N">>,           prompt |-> TRUE],
      [text |-> <<"l", "o", "g", "i", "n">>,           prompt |-> TRUE],
      [text |-> <<"S", "i", "g", "n", " ", "U", "p">>, prompt |-> TRUE],
      [text |-> <<"l", "o", "g", "s">>,                prompt |-> FALSE],
      [text |-> <<"@", "u", "s", "e", "r">>,           prompt |-> FALSE] }

HtmlSamples ==
    { [text |-> <<"p", "a", "s", "s", "w", "o", "r", "d">>, prompt |-> TRUE],
      [text |-> <<"P", "a", "s", "s", "w", "o", "r", "d">>, prompt |-> TRUE],
      [text |-> <<"h", "e", "a", "d", "e", "r">>,           prompt |-> FALSE] }

(* lines 258-260 *)
LoginDetected(rawTitle, rawHtml) ==
    LET title == Lower(rawTitle)
        page_html == Lower(rawHtml)
    IN  \/ Contains(title, NeedleLogIn)
        \/ Contains(title, NeedleLogin)
        \/ Contains(title, NeedleSignUp)
        \/ Contains(page_html, NeedlePassword)

(***************************************************************************)
(* The followers-link search, lines 268-331.                               *)
(*   href    "none": no a[href^="/{target}/followers"]; "ok": one, and its *)
(*           click succeeds; "raise": one, and its click raises.           *)
(*   anchors / header  the page's <a> elements / the header's a, span, li: *)
(*           "other": text without "followers" (or inner_text raised),     *)
(*           "ok": matching text, click succeeds; "fail": matching text,   *)
(*           click raises.                                                 *)
(***************************************************************************)
ElementKinds == {"other", "ok", "fail"}

TextMatches(e) == e \in {"ok", "fail"}

(* the for loops of lines 280-293 and 297-309: TRUE when a click succeeded *)
RECURSIVE ScanClick(_)
ScanClick(elems) ==
    IF elems = <<>> THEN FALSE
    ELSE IF TextMatches(Head(elems))
         THEN IF Head(elems) = "ok" THEN TRUE ELSE ScanClick(Tail(elems))
         ELSE ScanClick(Tail(elems))

AnyMatch(elems) == \E i \in DOMAIN elems : TextMatches(elems[i])

NoLocate == [tried |-> {}, matched |-> {}, clickedBy |-> {}, raised |-> FALSE]

(* a search that tries the header whatever tier 2 did *)
Tier3Always(found) == TRUE

(* line 294: tier 3 runs when tier 2 clicked nothing *)
Tier3Runs(found) == ~found

LocateOutcome(href, anchors, header) ==
    IF href # "none"
    THEN [tried |-> {1}, matched |-> {1},
          clickedBy |-> IF href = "ok" THEN {1} ELSE {},
          raised |-> href = "raise"]
    ELSE LET found == ScanClick(anchors)
             m2 == IF AnyMatch(anchors) THEN {2} ELSE {}
         IN  IF Tier3Runs(found)
             THEN [tried |-> {1, 2, 3},
                   matched |-> m2 \cup (IF AnyMatch(header) THEN {3} ELSE {}),
                   clickedBy |-> (IF found THEN {2} ELSE {})
                                 \cup (IF ScanClick(header) THEN {3} ELSE {}),
                   raised |-> FALSE]
             ELSE [tried |-> {1, 2}, matched |-> m2,
                   clickedBy |-> {2}, raised |-> FALSE]

(***************************************************************************)
(* The remote followers list.  Entry i of the list is rendered as an <li>  *)
(* of one of four shapes, and names user EntryId(i); with more entries     *)
(* than NumIds users, a user is rendered twice.                            *)
(*   "href"   anchor whose href holds instagram.com/<id>                   *)
(*   "atext"  anchor with a relative href, its text is the id (no space)   *)
(*   "itext"  no usable anchor text, the id is a token of the item's text  *)
(*   "none"   no anchor match and no token of 3..30 identifier characters  *)
(***************************************************************************)
EntryId(i) == ((i - 1) % NumIds) + 1

EntryShape(i) ==
    CASE i % 4 = 1 -> "href"
      [] i % 4 = 2 -> "atext"
      [] i % 4 = 3 -> "itext"
      [] OTHER     -> "none"

(* lines 169-188 for one item: the identifier it yields, 0 for none *)
IdOf(i) ==
    CASE EntryShape(i) = "href"  -> EntryId(i)
      [] EntryShape(i) = "atext" -> EntryId(i)
      [] EntryShape(i) = "itext" -> EntryId(i)
      [] OTHER                   -> 0

(* a loop that ends at the item that raised instead of skipping it *)
UsernamesUntilRaise(n, skip) ==
    {IdOf(i) : i \in {j \in 1..n : (skip = 0 \/ j < skip) /\ IdOf(j) # 0}}

(***************************************************************************)
(* lines 153-190: the usernames set after the loop over the n rendered     *)
(* items, when the item numbered skip (0: none) raised inside the inner    *)
(* try and was skipped by `except Exception: continue`.                    *)
(***************************************************************************)
UsernamesOf(n, skip) ==
    {IdOf(i) : i \in {j \in 1..n : j # skip /\ IdOf(j) # 0}}

(***************************************************************************)
(* line 194, list(usernames): a set of str iterates in hash-slot order,    *)
(* and the hash of a str depends on the per-process seed.                  *)
(***************************************************************************)
HashOf(u, seed) == (u * seed) % (NumIds + 1)

SlotKey(u, seed) == HashOf(u, seed) * (NumIds + 1) + u

RECURSIVE ListOfSet(_, _)
ListOfSet(S, seed) ==
    IF S = {} THEN <<>>
    ELSE LET first == CHOOSE u \in S :
                          \A v \in S : SlotKey(u, seed) <= SlotKey(v, seed)
         IN  <<first>> \o ListOfSet(S \ {first}, seed)

extract_usernames_from_dialog(n, skip, seed) ==
    ListOfSet(UsernamesOf(n, skip), seed)

(* a merge without the `if u not in followers` test *)
AppendAll(list, more) == list \o more

(* lines 349-351 *)
RECURSIVE AppendNew(_, _)
AppendNew(list, more) ==
    IF more = <<>> THEN list
    ELSE IF Head(more) \in Range(list)
         THEN AppendNew(list, Tail(more))
         ELSE AppendNew(Append(list, Head(more)), Tail(more))

(* a slice one past the cap *)
TrimOneMore(list, cap) ==
    IF Len(list) > cap THEN SubSeq(list, 1, Min(cap + 1, Len(list))) ELSE list

(* lines 354-355 *)
Trim(list, cap) == IF Len(list) > cap THEN SubSeq(list, 1, cap) ELSE list

(***************************************************************************)
(* scrape_followers_for(target, cookie_list, headless, max_followers)      *)
(***************************************************************************)
NoDebug == [html |-> FALSE, png |-> FALSE]

(***************************************************************************)
(* save_debug_html then save_debug_screenshot, lines 126-142: each writes  *)
(* its file, or fails (page.content, open, page.screenshot raising), which *)
(* its own except turns into a printed line.                               *)
(***************************************************************************)
SaveDebug == [html : BOOLEAN, png : BOOLEAN]

DriverIdle ==
    [pc |-> "idle", cookies |-> <<>>, i |-> 0, added |-> 0, outcome |-> <<>>,
     ret |-> -1]

(* the locals of a call of scrape_followers_for that has not begun *)
RunFresh ==
    /\ playwright_cookies = <<>>
    /\ injected = 0
    /\ sessionOpen = FALSE
    /\ navigated = FALSE
    /\ pagePrompt = FALSE
    /\ locate = NoLocate
    /\ dialogPresent = FALSE
    /\ total = 0
    /\ loaded = 0
    /\ maxSeconds = 0
    /\ elapsed = 0
    /\ attempts = 0
    /\ stall = 0
    /\ scrollCalls = 0
    /\ scrollErrors = 0
    /\ passes = 0
    /\ seen = <<>>
    /\ hashSeed = 0
    /\ followers = <<>>
    /\ csv = <<>>
    /\ debug = NoDebug
    /\ result = "running"

(***************************************************************************)
(* The environment's TARGET_USERNAMES: unset, or MaxTargets names, which   *)
(* are numbered in the order supplied.  TARGET, TARGET_USERNAME and        *)
(* TARGET_USER are unset.                                                  *)
(***************************************************************************)
TargetLists == {<<>>, [i \in 1..MaxTargets |-> i]}

(* followers-scraper.py lines 382-387: `tlist.split(",")[0].strip()` *)
PickTarget(tlist) == IF tlist = <<>> THEN 0 ELSE Head(tlist)

(* the targets for which scrape_followers_for was called *)
Processed == IF pc = "main" \/ target = 0 THEN {} ELSE {target}

(* a call scrape_followers_for(target, cookie_list, True, max_followers) *)
InitRun ==
    /\ pc = "convert"
    /\ cookie_list \in SeqsUpTo(CookieSamples, MaxCookies)
    /\ max_followers \in {0, CapSmall}
    /\ targets = <<>>
    /\ target = 1
    /\ RunFresh
    /\ drv = DriverIdle

(* python followers-scraper.py; line 397 passes max_followers=500 *)
InitMain ==
    /\ pc = "main"
    /\ cookie_list \in SeqsUpTo(CookieSamples, MaxCookies)
    /\ max_followers = MaxFollowersDefault
    /\ targets \in TargetLists
    /\ target = 0
    /\ RunFresh
    /\ drv = DriverIdle

(* a call of inject_cookies_into_driver(driver, cookie_list) *)
InitInject ==
    /\ pc = "off"
    /\ cookie_list = <<>>
    /\ max_followers = MaxFollowersDefault
    /\ targets = <<>>
    /\ target = 0
    /\ RunFresh
    /\ \E cs \in SeqsUpTo(CookieSamples, MaxInject) :
          drv = [DriverIdle EXCEPT !.pc = "inject", !.cookies = cs]

(* python bio-scraper.py *)
InitBioMain ==
    /\ pc = "off"
    /\ cookie_list = <<>>
    /\ max_followers = MaxFollowersDefault
    /\ targets \in TargetLists
    /\ target = 0
    /\ RunFresh
    /\ drv = [DriverIdle EXCEPT !.pc = "main"]

Init == InitRun \/ InitMain \/ InitInject \/ InitBioMain

(* `return False` / `return True`, and the outer `except Exception` *)
Return(r) ==
    /\ pc' = "returned"
    /\ result' = r

(* an exception that leaves the block with the browser still running *)
WithExitLeaks(open) == open

(***************************************************************************)
(* line 238, `with sync_playwright() as p:`.  An exception raised inside   *)
(* the block leaves it through the context manager's exit, which stops     *)
(* Playwright and with it every browser it launched, before the except of  *)
(* line 373 runs; context.close() and browser.close() are not called on    *)
(* that path.                                                              *)
(***************************************************************************)
WithExit(open) == FALSE

(***************************************************************************)
(* followers-scraper.py main, lines 381-397: without a target it prints    *)
(* and returns; otherwise it calls scrape_followers_for once, for the      *)
(* first name of the list, and only prints after the call (lines 398-401). *)
(***************************************************************************)
FollowersMain ==
    /\ pc = "main"
    /\ target' = PickTarget(targets)
    /\ pc' = IF target' = 0 THEN "exit" ELSE "convert"
    /\ UNCHANGED <<drv, debug, targets, cookie_list, playwright_cookies, injected,
                   max_followers, sessionOpen, navigated, pagePrompt, locate,
                   dialogPresent, total, loaded, maxSeconds, elapsed, attempts,
                   stall, scrollCalls, scrollErrors, passes, seen, hashSeed,
                   followers, csv, result>>

(* lines 231-234 *)
ConvertCookies ==
    /\ pc = "convert"
    /\ playwright_cookies' = cookies_to_playwright(cookie_list)
    /\ IF playwright_cookies' = <<>>
       THEN Return("NoCredentials")
       ELSE pc' = "launch" /\ UNCHANGED result
    /\ UNCHANGED <<drv, debug, targets, target, cookie_list, injected, max_followers, sessionOpen, navigated,
                   pagePrompt, locate, dialogPresent, total, loaded, maxSeconds,
                   elapsed, attempts, stall, scrollCalls, scrollErrors, passes,
                   seen, hashSeed, followers, csv>>

(* lines 238-240; a failed launch reaches the outer except of line 373 *)
Launch ==
    /\ pc = "launch"
    /\ \/ /\ sessionOpen' = TRUE
          /\ pc' = "add_cookies"
          /\ UNCHANGED result
       \/ /\ Return("Exception")
          /\ sessionOpen' = WithExit(sessionOpen)
    /\ UNCHANGED <<drv, debug, targets, target, cookie_list, playwright_cookies, injected, max_followers,
                   navigated, pagePrompt, locate, dialogPresent, total, loaded,
                   maxSeconds, elapsed, attempts, stall, scrollCalls,
                   scrollErrors, passes, seen, hashSeed, followers, csv>>

(***************************************************************************)
(* lines 242-247: context.add_cookies takes the whole list in one call; it *)
(* either sets every cookie or raises and sets none, and the except branch *)
(* goes on without cookies.  cookie_list and playwright_cookies are not    *)
(* read after line 244.                                                    *)
(***************************************************************************)
AddCookies ==
    /\ pc = "add_cookies"
    /\ \/ injected' = Len(playwright_cookies)
       \/ injected' = 0
    /\ pc' = "goto"
    /\ cookie_list' = <<>>
    /\ playwright_cookies' = <<>>
    /\ UNCHANGED <<drv, debug, targets, target, max_followers, sessionOpen, navigated, pagePrompt, locate,
                   dialogPresent, total, loaded, maxSeconds, elapsed, attempts,
                   stall, scrollCalls, scrollErrors, passes, seen, hashSeed,
                   followers, csv, result>>

(* lines 248-255; a goto that times out reaches the outer except *)
Navigate ==
    /\ pc = "goto"
    /\ \/ /\ navigated' = TRUE
          /\ pc' = "inspect"
          /\ UNCHANGED <<result, sessionOpen>>
       \/ /\ Return("Exception")
          /\ sessionOpen' = WithExit(sessionOpen)
          /\ UNCHANGED navigated
    /\ UNCHANGED <<drv, debug, targets, target, cookie_list, playwright_cookies, injected, max_followers,
                   pagePrompt, locate, dialogPresent, total,
                   loaded, maxSeconds, elapsed, attempts, stall, scrollCalls,
                   scrollErrors, passes, seen, hashSeed, followers, csv>>

(* lines 257-266 *)
Inspect ==
    /\ pc = "inspect"
    /\ \E t \in TitleSamples, h \in HtmlSamples :
          /\ pagePrompt' = (t.prompt \/ h.prompt)
          /\ IF LoginDetected(t.text, h.text)
             THEN /\ debug' \in SaveDebug
                  /\ sessionOpen' = FALSE
                  /\ Return("Unauthenticated")
             ELSE /\ pc' = "locate"
                  /\ UNCHANGED <<debug, sessionOpen, result>>
    /\ UNCHANGED <<drv, targets, target, cookie_list, playwright_cookies, injected, max_followers,
                   navigated, locate, dialogPresent, total, loaded, maxSeconds,
                   elapsed, attempts, stall, scrollCalls, scrollErrors, passes,
                   seen, hashSeed, followers, csv>>

(* lines 268-331 *)
Locate ==
    /\ pc = "locate"
    /\ \E href \in {"none", "ok", "raise"},
          anchors \in SeqsUpTo(ElementKinds, MaxAnchors),
          header \in SeqsUpTo(ElementKinds, MaxHeader) :
          /\ locate' = LocateOutcome(href, anchors, header)
          /\ IF locate'.raised
             THEN /\ debug' \in SaveDebug
                  /\ sessionOpen' = FALSE
                  /\ Return("LocateException")
             ELSE IF locate'.clickedBy = {}
                  THEN /\ debug' \in SaveDebug
                       /\ sessionOpen' = FALSE
                       /\ Return("RegionNotFound")
                  ELSE /\ pc' = "wait"
                       /\ UNCHANGED <<debug, sessionOpen, result>>
    /\ UNCHANGED <<drv, targets, target, cookie_list, playwright_cookies, injected, max_followers,
                   navigated, pagePrompt, dialogPresent, total, loaded,
                   maxSeconds, elapsed, attempts, stall, scrollCalls,
                   scrollErrors, passes, seen, hashSeed, followers, csv>>

(***************************************************************************)
(* scroll_followers_modal(page, target, max_seconds), lines 196-222        *)
(***************************************************************************)
(* a loop that also gives up after StallThreshold iterations without growth *)
LoopGuardStall(e, m) == e < m /\ stall < StallThreshold

(* line 209: `while time.time() - start < max_seconds` *)
LoopGuard(e, m) == e < m

(* an iteration without the settle delay *)
ElapsedNoSleep(e, d) == e + d

(* lines 211-219: page.evaluate took d ticks, then time.sleep(0.6) *)
ElapsedAfter(e, d) == e + d + SettleDelay

(* lines 200-201, entered from lines 336 and 347 *)
StartScroll(max_seconds) ==
    /\ pc' = "scroll"
    /\ maxSeconds' = max_seconds
    /\ elapsed' = 0
    /\ attempts' = 0
    /\ stall' = 0
    /\ scrollCalls' = scrollCalls + 1

(* a return that skips the extraction after the call *)
AfterScrollNoPass == IF scrollCalls = 1 THEN "second_check" ELSE "trim"

(* the statement after the call: line 339 or line 348 *)
AfterScroll == IF scrollCalls = 1 THEN "extract1" ELSE "extract2"

(***************************************************************************)
(* line 334, time.sleep(1.0), then the call of line 336.  Whether the      *)
(* click opened the dialog, and how many entries the list holds, is the    *)
(* remote page's; the first GrowStep entries are rendered on opening.      *)
(* clicked and found are not read after line 311.                          *)
(***************************************************************************)
WaitDialog ==
    /\ pc = "wait"
    /\ \E present \in BOOLEAN, t \in 0..MaxEntries :
          /\ dialogPresent' = present
          /\ total' = IF present THEN t ELSE 0
          /\ loaded' = IF present THEN Min(GrowStep, t) ELSE 0
    /\ locate' = NoLocate
    /\ StartScroll(MaxSecondsFirst)
    /\ UNCHANGED <<drv, debug, targets, target, cookie_list, playwright_cookies, injected, max_followers,
                   sessionOpen, navigated, pagePrompt, scrollErrors, passes,
                   seen, hashSeed, followers, csv, result>>

(* one iteration of the while loop, lines 209-219 *)
ScrollIter ==
    /\ pc = "scroll"
    /\ LoopGuard(elapsed, maxSeconds)
    /\ \E d \in {0, EvalSlow}, grow \in BOOLEAN :
          /\ loaded' = IF dialogPresent /\ grow
                       THEN Min(loaded + GrowStep, total)
                       ELSE loaded
          /\ elapsed' = ElapsedAfter(elapsed, d)
    /\ attempts' = attempts + 1
    /\ stall' = IF loaded' = loaded THEN Min(stall + 1, StallThreshold + 1)
                ELSE 0
    /\ UNCHANGED <<drv, debug, targets, target, pc, cookie_list, playwright_cookies, injected,
                   max_followers, sessionOpen, navigated, pagePrompt, locate,
                   dialogPresent, total, maxSeconds, scrollCalls, scrollErrors,
                   passes, seen, hashSeed, followers, csv, result>>

(***************************************************************************)
(* The function returns to line 339 or line 348; start and the loop's      *)
(* bookkeeping are its locals and end with the call.                       *)
(***************************************************************************)
EndScroll ==
    /\ pc' = AfterScroll
    /\ maxSeconds' = 0
    /\ elapsed' = 0
    /\ attempts' = 0
    /\ stall' = 0

(* the loop condition of line 209 is false *)
ScrollReturn ==
    /\ pc = "scroll"
    /\ ~LoopGuard(elapsed, maxSeconds)
    /\ EndScroll
    /\ UNCHANGED <<drv, debug, targets, target, cookie_list, playwright_cookies, injected, max_followers,
                   sessionOpen, navigated, pagePrompt, locate, dialogPresent,
                   total, loaded, scrollCalls, scrollErrors, passes, seen,
                   hashSeed, followers, csv, result>>

(***************************************************************************)
(* lines 204-207 or 211-218 raise: the except of lines 220-222 prints and  *)
(* the function returns.                                                   *)
(***************************************************************************)
ScrollRaise ==
    /\ pc = "scroll"
    /\ LoopGuard(elapsed, maxSeconds)
    /\ scrollErrors' = scrollErrors + 1
    /\ EndScroll
    /\ UNCHANGED <<drv, debug, targets, target, cookie_list, playwright_cookies, injected, max_followers,
                   sessionOpen, navigated, pagePrompt, locate, dialogPresent,
                   total, loaded, scrollCalls, passes, seen, hashSeed,
                   followers, csv, result>>

(***************************************************************************)
(* One call of extract_usernames_from_dialog, lines 147-194: the list it   *)
(* returns.  n items are rendered; item skip (0: none) raises inside the   *)
(* inner try; outer: a locator count raised before the loop (line 191).    *)
(***************************************************************************)
Rendered == IF dialogPresent THEN loaded ELSE 0

Seeds == IF hashSeed = 0 THEN 1..NumSeeds ELSE {hashSeed}

PassResult(skip, outer, seed) ==
    IF outer THEN <<>> ELSE extract_usernames_from_dialog(Rendered, skip, seed)

PassChoices ==
    {c \in [skip : 0..Min(Rendered, MaxRaiseAt), outer : BOOLEAN] :
        c.outer => c.skip = 0}

NotePass(c) ==
    /\ seen' = Append(seen, [n |-> Rendered, skip |-> c.skip, outer |-> c.outer])
    /\ passes' = passes + 1

(* lines 339-343 *)
Extract1 ==
    /\ pc = "extract1"
    /\ \E c \in PassChoices, seed \in Seeds :
          /\ hashSeed' = seed
          /\ followers' = PassResult(c.skip, c.outer, seed)
          /\ NotePass(c)
    /\ pc' = "second_check"
    /\ UNCHANGED <<drv, debug, targets, target, cookie_list, playwright_cookies, injected, max_followers,
                   sessionOpen, navigated, pagePrompt, locate, dialogPresent,
                   total, loaded, maxSeconds, elapsed, attempts, stall,
                   scrollCalls, scrollErrors, csv, result>>

(* a second pass that is skipped whenever the first found nothing *)
SecondPassUnlessEmpty(list) == list # <<>> /\ Len(list) < SecondPassMin

(* line 346 *)
SecondPassNeeded(list) == Len(list) < SecondPassMin

(* lines 346-347 *)
SecondCheck ==
    /\ pc = "second_check"
    /\ IF SecondPassNeeded(followers)
       THEN StartScroll(MaxSecondsSecond)
       ELSE /\ pc' = "trim"
            /\ UNCHANGED <<maxSeconds, elapsed, attempts, stall, scrollCalls>>
    /\ UNCHANGED <<drv, debug, targets, target, cookie_list, playwright_cookies, injected, max_followers,
                   sessionOpen, navigated, pagePrompt, locate, dialogPresent,
                   total, loaded, scrollErrors, passes, seen, hashSeed,
                   followers, csv, result>>

(* lines 348-351 *)
Extract2 ==
    /\ pc = "extract2"
    /\ \E c \in PassChoices, seed \in Seeds :
          /\ hashSeed' = seed
          /\ followers' = AppendNew(followers, PassResult(c.skip, c.outer, seed))
          /\ NotePass(c)
    /\ pc' = "trim"
    /\ UNCHANGED <<drv, debug, targets, target, cookie_list, playwright_cookies, injected, max_followers,
                   sessionOpen, navigated, pagePrompt, locate, dialogPresent,
                   total, loaded, maxSeconds, elapsed, attempts, stall,
                   scrollCalls, scrollErrors, csv, result>>

(* lines 353-371; a to_csv that raises reaches the outer except *)
TrimSave ==
    /\ pc = "trim"
    /\ followers' = Trim(followers, max_followers)
    /\ IF followers' # <<>>
       THEN \/ /\ csv' = followers'
               /\ sessionOpen' = FALSE
               /\ Return("Done")
               /\ UNCHANGED debug
            \/ /\ Return("Exception")
               /\ sessionOpen' = WithExit(sessionOpen)
               /\ UNCHANGED <<csv, debug>>
       ELSE /\ debug' \in SaveDebug
            /\ sessionOpen' = FALSE
            /\ Return("NoFollowers")
            /\ UNCHANGED csv
    /\ UNCHANGED <<drv, targets, target, cookie_list, playwright_cookies, injected, max_followers,
                   navigated, pagePrompt, locate, dialogPresent, total, loaded,
                   maxSeconds, elapsed, attempts, stall, scrollCalls,
                   scrollErrors, passes, seen, hashSeed>>

(***************************************************************************)
(* bio-scraper.py                                                          *)
(***************************************************************************)
(* line 58: str(c.get("value", "")) turns None into the text 'None';
   lines 62-71 copy the expiry instant as an int *)
normalize_cookie_for_selenium(c) ==
    [name |-> c.name, value |-> IF c.value = "None" THEN "'None'" ELSE c.value,
     expires |-> c.expires]

(* line 87 *)
SeleniumSkipped(cookie) == cookie.name = "" \/ cookie.value = "None"

(* lines 93-104: add_cookie succeeded ("ok"), failed and the retry without
   the leading dot succeeded ("retry"), or both failed ("fail") *)
AddOutcomes == {"ok", "retry", "fail"}

Counted(o) == IF o \in {"ok", "retry"} THEN 1 ELSE 0

(* lines 75-83; a failed driver.get only prints a warning *)
InjectEnter ==
    /\ drv.pc = "inject"
    /\ IF drv.cookies = <<>>
       THEN drv' = [drv EXCEPT !.pc = "returned", !.ret = 0]
       ELSE drv' = [drv EXCEPT !.pc = "loop", !.i = 1]
    /\ UNCHANGED runVars

(* one iteration of the for loop, lines 84-106 *)
InjectOne ==
    /\ drv.pc = "loop"
    /\ drv.i <= Len(drv.cookies)
    /\ LET cookie == normalize_cookie_for_selenium(drv.cookies[drv.i])
       IN  IF SeleniumSkipped(cookie)
           THEN drv' = [drv EXCEPT !.i = @ + 1,
                                   !.outcome = Append(@, "skip")]
           ELSE \E o \in AddOutcomes :
                   drv' = [drv EXCEPT !.i = @ + 1,
                                      !.added = @ + Counted(o),
                                      !.outcome = Append(@, o)]
    /\ UNCHANGED runVars

(* lines 107-108 *)
InjectReturn ==
    /\ drv.pc = "loop"
    /\ drv.i > Len(drv.cookies)
    /\ drv' = [drv EXCEPT !.pc = "returned", !.ret = drv.added]
    /\ UNCHANGED runVars

(***************************************************************************)
(* main, lines 250-252: `ensure_descriptions_csv = ensure_descriptions_csv`*)
(* makes the name local to main, so reading it on the right-hand side      *)
(* raises UnboundLocalError before any other statement of main runs.       *)
(***************************************************************************)
BioMain ==
    /\ drv.pc = "main"
    /\ drv' = [drv EXCEPT !.pc = "raised"]
    /\ UNCHANGED runVars

Next ==
    \/ FollowersMain
    \/ ConvertCookies
    \/ Launch
    \/ AddCookies
    \/ Navigate
    \/ Inspect
    \/ Locate
    \/ WaitDialog
    \/ ScrollIter
    \/ ScrollReturn
    \/ ScrollRaise
    \/ Extract1
    \/ SecondCheck
    \/ Extract2
    \/ TrimSave
    \/ InjectEnter
    \/ InjectOne
    \/ InjectReturn
    \/ BioMain

Spec == Init /\ [][Next]_vars

(***************************************************************************)
(* What the passes observed, read from the record of the passes alone.     *)
(***************************************************************************)
(* the items of pass k that yield an identifier and did not raise *)
Yielding(k) ==
    IF seen[k].outer THEN {}
    ELSE {i \in 1..seen[k].n : i # seen[k].skip /\ EntryShape(i) # "none"}

PassIds(k) == {EntryId(i) : i \in Yielding(k)}

Collected == UNION {PassIds(k) : k \in DOMAIN seen}

NoDup(list) == \A i, j \in DOMAIN list : i # j => list[i] # list[j]

Pos(list, u) == CHOOSE i \in DOMAIN list : list[i] = u

(* the first pass, and the first item of it, that showed identifier u *)
FirstPass(u) == CHOOSE k \in DOMAIN seen :
                    /\ u \in PassIds(k)
                    /\ \A j \in DOMAIN seen : u \in PassIds(j) => k <= j

FirstItem(u) == CHOOSE i \in Yielding(FirstPass(u)) :
                    /\ EntryId(i) = u
                    /\ \A j \in Yielding(FirstPass(u)) : EntryId(j) = u => i <= j

SeenBefore(a, b) ==
    \/ FirstPass(a) < FirstPass(b)
    \/ FirstPass(a) = FirstPass(b) /\ FirstItem(a) < FirstItem(b)

(***************************************************************************)
(* C1  Deduplication: the followers list and the written CSV never hold an *)
(* identifier twice, and every identifier a pass yielded is in them once,  *)
(* however many items or passes showed it (as long as the cap cuts         *)
(* nothing).                                                               *)
(***************************************************************************)
Deduplication ==
    /\ NoDup(followers)
    /\ NoDup(csv)
    /\ (passes >= 1 /\ pc # "returned") => Range(followers) = Collected
    /\ (result = "Done" /\ Cardinality(Collected) <= max_followers)
          => Range(csv) = Collected

(* both passes ran, the second saw identifiers of the first again, and a
   pass rendered one user in two items *)
ReobservedAndSaved ==
    /\ result = "Done"
    /\ passes = 2
    /\ PassIds(1) \cap PassIds(2) # {}
    /\ \E k \in DOMAIN seen : Cardinality(Yielding(k)) > Cardinality(PassIds(k))

(***************************************************************************)
(* C2  Cap respected: the CSV never holds more than max_followers rows,    *)
(* and a successful run writes exactly min(collected, max_followers) rows. *)
(***************************************************************************)
CapRespected ==
    /\ Len(csv) <= max_followers
    /\ pc = "returned" => Len(followers) <= max_followers
    /\ result = "Done"
          => Len(csv) = Min(Cardinality(Collected), max_followers)

(* more identifiers were collected than the cap allows *)
TruncatedToCap ==
    /\ result = "Done"
    /\ Cardinality(Collected) > max_followers
    /\ Len(csv) = max_followers

(***************************************************************************)
(* C3  Order preservation: in the written CSV an identifier seen earlier   *)
(* (earlier pass, or earlier item of the same pass) precedes one seen      *)
(* later, and the cap keeps the first-seen prefix.                         *)
(***************************************************************************)
FirstSeenOrder ==
    result = "Done" =>
        /\ \A a, b \in Range(csv) :
              SeenBefore(a, b) => Pos(csv, a) < Pos(csv, b)
        /\ \A a \in Range(csv), b \in Collected \ Range(csv) : SeenBefore(a, b)

(* the iterations a scroll call of max_seconds ticks can make *)
MaxAttempts(max_seconds) == CeilDiv(max_seconds, SettleDelay)

(***************************************************************************)
(* C4  Termination: a call of scroll_followers_modal makes at most         *)
(* ceil(max_seconds / 0.6) iterations, because every iteration costs at    *)
(* least the settle delay, whether or not the list keeps growing.          *)
(***************************************************************************)
ScrollTerminates ==
    pc = "scroll" =>
        /\ maxSeconds \in {MaxSecondsFirst, MaxSecondsSecond}
        /\ attempts * SettleDelay <= elapsed
        /\ attempts <= MaxAttempts(maxSeconds)

(* the loop made its last possible iteration, and that one still revealed
   new entries *)
ScrollAtBound ==
    /\ pc = "scroll"
    /\ attempts = MaxAttempts(MaxSecondsFirst)
    /\ stall = 0
    /\ elapsed >= maxSeconds

(***************************************************************************)
(* C5  Stall convergence, as claimed: once the list is exhausted the loop  *)
(* makes at most StallThreshold further iterations.                        *)
(***************************************************************************)
StallConvergence ==
    (pc = "scroll" /\ (~dialogPresent \/ loaded = total))
        => stall <= StallThreshold

(***************************************************************************)
(* C5, amended: the loop keeps no stall counter; a call that does not      *)
(* raise returns only when max_seconds have elapsed, however many          *)
(* iterations revealed nothing.                                            *)
(***************************************************************************)
ScrollRunsToTimeout ==
    [][(pc = "scroll" /\ pc' # "scroll" /\ scrollErrors' = scrollErrors)
          => elapsed >= maxSeconds]_vars

(* the list is exhausted, more than StallThreshold iterations revealed
   nothing, and the loop goes on *)
ScrollingWhileStalled ==
    /\ pc = "scroll"
    /\ loaded = total
    /\ stall > StallThreshold
    /\ elapsed < maxSeconds

(***************************************************************************)
(* C6  Bootstrap outcome, as claimed: the target page is never loaded      *)
(* while the browsing session holds no injected token.                     *)
(***************************************************************************)
NoNavigationWithoutToken == navigated => injected > 0

(* no cookie of the list has both a name and a value other than None *)
NoUsableCookie(list) ==
    \A i \in DOMAIN list : list[i].name = "" \/ list[i].value = "None"

(***************************************************************************)
(* C6, amended: scrape_followers_for returns NoCredentials, before any     *)
(* browser is launched, exactly when no cookie of the list has a name and  *)
(* a value other than None; otherwise it goes on to add_cookies, and from  *)
(* there always to the navigation, whether the one add_cookies call        *)
(* injected the cookies or raised.  inject_cookies_into_driver goes        *)
(* through every cookie: one without a name is skipped, one whose          *)
(* add_cookie fails twice is left out, the others are counted.             *)
(***************************************************************************)
BootstrapOutcome ==
    /\ [](result = "NoCredentials"
            => /\ NoUsableCookie(cookie_list)
               /\ ~sessionOpen /\ ~navigated /\ injected = 0
               /\ scrollCalls = 0 /\ passes = 0 /\ csv = <<>>)
    /\ [][pc = "convert"
            => ((result' = "NoCredentials") <=> NoUsableCookie(cookie_list))]_vars
    /\ [][pc = "add_cookies" => pc' = "goto"]_vars
    /\ [](drv.pc = "returned"
            => /\ Len(drv.outcome) = Len(drv.cookies)
               /\ \A i \in DOMAIN drv.cookies :
                     drv.outcome[i] = "skip" <=> drv.cookies[i].name = ""
               /\ drv.ret = Cardinality({i \in DOMAIN drv.outcome :
                                            drv.outcome[i] \in {"ok", "retry"}}))

(* add_cookies raised, and the run inspects the target page without a token *)
InspectingWithoutToken ==
    /\ pc = "inspect"
    /\ navigated
    /\ injected = 0

(***************************************************************************)
(* C7  Unauthenticated detection: whenever the inspected page carries a    *)
(* login-prompt signature (in any letter case) the run has returned        *)
(* Unauthenticated without searching the followers link, scrolling or      *)
(* extracting; a run returns Unauthenticated for no other page.            *)
(***************************************************************************)
UnauthenticatedDetection ==
    /\ pagePrompt => (pc = "returned" /\ result = "Unauthenticated")
    /\ result = "Unauthenticated"
          => /\ pagePrompt
             /\ locate = NoLocate
             /\ ~dialogPresent
             /\ scrollCalls = 0 /\ passes = 0
             /\ followers = <<>> /\ csv = <<>>

(* the target page was loaded with a token injected and showed a prompt *)
PromptDetected ==
    /\ result = "Unauthenticated"
    /\ navigated
    /\ injected > 0
    /\ pagePrompt

(***************************************************************************)
(* C8  Region locate order, as claimed: a later tier is attempted only     *)
(* when every earlier tier found nothing.                                  *)
(***************************************************************************)
LaterTierOnlyAfterNoMatch ==
    \A t \in locate.tried : \A e \in 1..(t - 1) : e \notin locate.matched

(***************************************************************************)
(* C8, amended: tier 2 is attempted only when tier 1 matched nothing, and  *)
(* tier 3 only when moreover no tier-2 match could be clicked (a tier-2    *)
(* match whose click raises does not stop the search); at most one tier    *)
(* clicks; the run ends RegionNotFound, with nothing scrolled, extracted   *)
(* or written, exactly when all three tiers were tried and none clicked.   *)
(***************************************************************************)
LocateOrder ==
    /\ 2 \in locate.tried => 1 \notin locate.matched
    /\ 3 \in locate.tried => (1 \notin locate.matched /\ 2 \notin locate.clickedBy)
    /\ locate.tried \in {{}, {1}, {1, 2}, {1, 2, 3}}
    /\ locate.clickedBy \subseteq locate.matched
    /\ Cardinality(locate.clickedBy) <= 1
    /\ result = "RegionNotFound"
          <=> (pc = "returned" /\ locate.tried = {1, 2, 3}
               /\ locate.clickedBy = {})
    /\ result = "RegionNotFound"
          => (scrollCalls = 0 /\ passes = 0 /\ followers = <<>> /\ csv = <<>>)
    /\ (pc = "returned" /\ locate.tried # {} /\ locate.matched = {})
          => result = "RegionNotFound"

(* a tier-2 element matched but its click raised, and tier 3 opened the
   region *)
HeaderAfterFailedClick ==
    /\ pc = "wait"
    /\ 2 \in locate.matched
    /\ locate.clickedBy = {3}

(***************************************************************************)
(* C9  Region wait, as claimed: no scroll and no extraction is performed   *)
(* unless the dialog's container is present.                               *)
(***************************************************************************)
HarvestOnlyWhenPresent == (scrollCalls > 0 \/ passes > 0) => dialogPresent

(***************************************************************************)
(* C9, amended: after the click the run sleeps and starts scrolling        *)
(* whether or not the container is present; with the container absent it   *)
(* still makes both scroll calls and both extraction passes, finds         *)
(* nothing, and ends in failure with no row written.                       *)
(***************************************************************************)
AbsentContainerHarvest ==
    (pc = "returned" /\ scrollCalls > 0 /\ ~dialogPresent)
        => /\ scrollCalls = 2 /\ passes = 2
           /\ result = "NoFollowers"
           /\ followers = <<>> /\ csv = <<>>

(* the loop is iterating although the container is absent *)
ScrollingWithoutContainer ==
    /\ pc = "scroll"
    /\ ~dialogPresent
    /\ attempts > 0

InSession ==
    pc \in {"add_cookies", "goto", "inspect", "locate", "wait", "scroll",
            "extract1", "second_check", "extract2", "trim"}

(***************************************************************************)
(* C11  Session release: the browser and context, once launched, stay open *)
(* until the run ends, and on every path by which scrape_followers_for     *)
(* returns (success, Unauthenticated, followers link not found or its      *)
(* search raising, nothing extracted, or an exception reaching the outer   *)
(* except) they have been released.                                        *)
(***************************************************************************)
SessionReleased ==
    /\ pc = "returned" => ~sessionOpen
    /\ InSession => sessionOpen

(* writing the CSV raised after both the page and the dialog were used:
   the run ended in the outer except with the session released *)
ReleasedAfterException ==
    /\ result = "Exception"
    /\ navigated
    /\ passes >= 1
    /\ ~sessionOpen

(***************************************************************************)
(* C12  Multi-target isolation: when a run over the supplied targets has   *)
(* ended, by returning or by an exception, every supplied target was       *)
(* processed, whatever happened to the targets before it.                  *)
(***************************************************************************)
MultiTargetIsolation ==
    (pc \in {"returned", "exit"} \/ drv.pc = "raised")
        => Range(targets) \subseteq Processed

(***************************************************************************)
(* C13  Diagnostics on failure: a run of scrape_followers_for that has     *)
(* returned False wrote no follower row and has saved both debug files,    *)
(* the HTML snapshot and the PNG screenshot.                               *)
(***************************************************************************)
DiagnosticsOnFailure ==
    (pc = "returned" /\ result # "Done")
        => (csv = <<>> /\ debug.html /\ debug.png)

(***************************************************************************)
(* C14  Credential token invariant: no cookie handed to                    *)
(* context.add_cookies or to driver.add_cookie has an empty value, and     *)
(* none has an expiry instant that has already passed.                     *)
(***************************************************************************)
TokenInvariant ==
    /\ pc = "add_cookies"
          => \A i \in DOMAIN playwright_cookies :
                /\ playwright_cookies[i].value # ""
                /\ playwright_cookies[i].expires # "past"
    /\ \A i \in DOMAIN drv.outcome :
          drv.outcome[i] # "skip"
              => LET cookie == normalize_cookie_for_selenium(drv.cookies[i])
                 IN  cookie.value # "" /\ cookie.expires # "past"

(***************************************************************************)
(* C15  Harvest iteration order, as claimed: every iteration of the        *)
(* scroll loop extracts before it triggers growth, so a call never has     *)
(* made more growth triggers than extraction passes were made.             *)
(***************************************************************************)
ExtractBeforeEachGrowth == pc = "scroll" => attempts <= passes

(***************************************************************************)
(* C15, amended: the scroll loop never extracts; an extraction pass is     *)
(* made after each scroll call has returned, one pass per call and at most *)
(* two calls per run, and the followers list holds only identifiers that   *)
(* were rendered at the time of a pass.                                    *)
(***************************************************************************)
ScrollThenExtract ==
    /\ scrollCalls <= 2
    /\ pc \in {"scroll", "extract1", "extract2"} => passes = scrollCalls - 1
    /\ pc \in {"second_check", "trim", "returned"} => passes = scrollCalls
    /\ pc = "scroll" => attempts * SettleDelay <= elapsed
    /\ Range(followers) \subseteq Collected
    /\ passes = 0 => followers = <<>>

(* the first scroll call has triggered growth several times, and entries
   beyond the first rendering are shown, before any extraction pass *)
GrowthWithoutExtraction ==
    /\ pc = "scroll"
    /\ scrollCalls = 1
    /\ attempts >= 2
    /\ loaded > GrowStep
    /\ passes = 0

=============================================================================
